---- MODULE Spec2Model ----
(***************************************************************************)
(* Model of the MedScribe processing pipeline: the React state of App      *)
(* (status, error, report, audioUrl), the handlers handleFileChange,       *)
(* processAudioFile and reset of src/App.tsx, and the two gateway          *)
(* functions transcribeAudio and refineMedicalReport.                      *)
(*                                                                         *)
(* A nullable JavaScript value is modelled as a set with at most one       *)
(* element: Null is the empty set and Some(v) the singleton {v}.           *)
(***************************************************************************)
EXTENDS Integers, Sequences, FiniteSets, TLC

\* Number of submissions (calls of processAudioFile) followed in one run.
MaxSubmissions == 2

Null == {}
Some(v) == {v}
TheValue(o) == CHOOSE v \in o : TRUE

\* enum AppStatus
AppStatus == {"IDLE", "UPLOADING", "TRANSCRIBING", "REFINING", "COMPLETED", "ERROR"}

\* The literal of the catch block of processAudioFile.
DefaultErrorMessage == "An error occurred during processing."

\* The literals of the catch block of refineMedicalReport.
FallbackFindings == "Error procesando la estructura del reporte."
FallbackDiagnosis == "No se pudo estructurar la informacion."
FallbackPlan == "Por favor revise el texto de la transcripcion."

----------------------------------------------------------------------------
(* Inputs *)

\* Selected files: a MIME type and the base64 rendering of the bytes.
Files == { [type |-> "audio/mpeg", data |-> "SUQz"],
           [type |-> "audio/wav", data |-> ""] }

\* event.target.files?.[0]: a file, or undefined when the dialog was dismissed.
FileSelections == {Null} \cup {Some(f) : f \in Files}

\* Values a gateway call rejects with: an Error with a message, an Error
\* with an empty message, and a thrown value that has no message property.
Rejections == { [message |-> "Network error"], [message |-> ""], [name |-> "AbortError"] }

\* response.text of the transcription call: undefined, empty, or a transcript.
TranscribeTexts == { Null, Some(""), Some("Rinon izquierdo mide 10 centimetros.") }

\* JSON lexemes.  A response text is a sequence of lexemes.
LBrace == [t |-> "{"]
RBrace == [t |-> "}"]
Colon == [t |-> ":"]
Comma == [t |-> ","]
NullLit == [t |-> "null"]
Word(w) == [t |-> "word", v |-> w]
Str(s) == [t |-> "string", v |-> s]

Member(k, v) == <<Str(k), Colon, Str(v)>>

\* response.text of the structuring call: undefined, the empty string, or text.
RefineTexts ==
  { Null,
    Some(<<>>),
    Some(<<LBrace, RBrace>>),
    Some(<<LBrace>> \o Member("findings", "F") \o <<Comma>> \o Member("diagnosis", "D")
         \o <<Comma>> \o Member("plan", "P") \o <<RBrace>>),
    Some(<<LBrace>> \o Member("patientInfo", "N") \o <<Comma>> \o Member("findings", "F")
         \o <<Comma>> \o Member("diagnosis", "D") \o <<Comma>> \o Member("plan", "P")
         \o <<Comma>> \o Member("originalText", "X") \o <<RBrace>>),
    Some(<<LBrace>> \o Member("findings", "F") \o <<Comma>> \o Member("plan", "P") \o <<RBrace>>),
    Some(<<LBrace>> \o Member("findings", "F") \o <<Comma>> \o Member("diagnosis", "D")
         \o <<Comma>> \o Member("plan", "P")),
    Some(<<LBrace>> \o Member("findings", "F") \o <<Comma, RBrace>>),
    Some(<<NullLit>>),
    Some(<<Word("Lo"), Word("siento")>>) }

----------------------------------------------------------------------------
(* JSON.parse, for texts that are a flat object of string members, or null *)

ParseError == [ok |-> FALSE]
Parsed(v) == [ok |-> TRUE, value |-> v]

EmptyObject == [x \in {} |-> ""]
JSONnull == [kind |-> "null"]
JSONobject(m) == [kind |-> "object", members |-> m]

\* The members of toks[i..n] (key : string, separated by commas), added to
\* acc; a repeated key keeps the last value.
RECURSIVE ParseMembers(_, _, _, _)
ParseMembers(toks, i, n, acc) ==
  IF i + 2 > n \/ toks[i].t # "string" \/ toks[i+1] # Colon \/ toks[i+2].t # "string"
  THEN ParseError
  ELSE LET k == toks[i].v
           acc2 == [x \in DOMAIN acc \cup {k} |-> IF x = k THEN toks[i+2].v ELSE acc[x]]
       IN IF i + 2 = n THEN Parsed(JSONobject(acc2))
          ELSE IF toks[i+3] # Comma THEN ParseError
          ELSE ParseMembers(toks, i + 4, n, acc2)

JSONparse(toks) ==
  LET n == Len(toks) IN
  IF n = 1 /\ toks[1] = NullLit THEN Parsed(JSONnull)
  ELSE IF n < 2 \/ toks[1] # LBrace \/ toks[n] # RBrace THEN ParseError
  ELSE IF n = 2 THEN Parsed(JSONobject(EmptyObject))
  ELSE ParseMembers(toks, 2, n - 1, EmptyObject)

\* Variant: { originalText: rawText, ...data }, the response's keys last.
SpreadOriginalTextFirst(data, rawText) ==
  LET m == IF data.kind = "object" THEN data.members ELSE EmptyObject
  IN [k \in DOMAIN m \cup {"originalText"} |-> IF k \in DOMAIN m THEN m[k] ELSE rawText]

\* { ...data, originalText: rawText }: spreading null contributes nothing.
SpreadWithOriginalText(data, rawText) ==
  LET m == IF data.kind = "object" THEN data.members ELSE EmptyObject
  IN [k \in DOMAIN m \cup {"originalText"} |-> IF k = "originalText" THEN rawText ELSE m[k]]

\* Variant: the fallback report built without the transcript.
FallbackReport_NoTranscript(rawText) ==
  [findings |-> FallbackFindings, diagnosis |-> FallbackDiagnosis,
   plan |-> FallbackPlan, originalText |-> ""]

FallbackReport(rawText) ==
  [findings |-> FallbackFindings, diagnosis |-> FallbackDiagnosis,
   plan |-> FallbackPlan, originalText |-> rawText]

----------------------------------------------------------------------------
(* services/geminiService *)

\* transcribeAudio after generateContent resolved: response.text || "".
transcribeAudio(text) == IF text = Null \/ text = Some("") THEN "" ELSE TheValue(text)

\* Variant: originalText taken from the response when it carries one.
refineMedicalReport_ResponseWins(text, rawText) ==
  LET src == IF text = Null \/ text = Some(<<>>) THEN <<LBrace, RBrace>> ELSE TheValue(text)
      res == JSONparse(src)
  IN IF res.ok THEN SpreadOriginalTextFirst(res.value, rawText)
     ELSE FallbackReport(rawText)

\* refineMedicalReport after generateContent resolved: the try/catch around
\* JSON.parse(response.text || "{}").
refineMedicalReport(text, rawText) ==
  LET src == IF text = Null \/ text = Some(<<>>) THEN <<LBrace, RBrace>> ELSE TheValue(text)
      res == JSONparse(src)
  IN IF res.ok THEN SpreadWithOriginalText(res.value, rawText)
     ELSE FallbackReport(rawText)

\* Variant: err.message ?? default, which keeps an empty message.
ErrorMessage_KeepsEmpty(err) ==
  IF "message" \in DOMAIN err THEN err.message ELSE DefaultErrorMessage

\* err.message || 'An error occurred during processing.'
ErrorMessage(err) ==
  IF "message" \in DOMAIN err /\ err.message # "" THEN err.message ELSE DefaultErrorMessage

\* reader.readAsDataURL(file): the text before and after the comma.
readAsDataURL(file) == << <<"data:", file.type, ";base64">>, file.data >>

\* (reader.result as string).split(',')[1]
Base64Of(result) == result[2]

----------------------------------------------------------------------------
(* State *)

VARIABLES
  status,      \* useState<AppStatus>
  error,       \* useState<string | null>
  report,      \* useState<StructuredReport | null>
  audioUrl,    \* useState<string | null>
  calls,       \* the invocations of processAudioFile, in order of start
  prevStatus,  \* the value status had before the last setStatus
  event        \* the handler step that produced the current state

vars == <<status, error, report, audioUrl, calls, prevStatus, event>>

Submissions == 1..MaxSubmissions

\* The locals of an invocation of processAudioFile, the await it is
\* suspended at and the gateway calls it has made so far (sent); an
\* invocation that has not happened yet.
NotStarted == [pc |-> "none", file |-> Null, reader |-> "EMPTY", base64Audio |-> Null,
               rawText |-> Null, sent |-> <<>>]

\* An invocation that has finished: its locals are gone.
Finished(c, how) == [NotStarted EXCEPT !.pc = how, !.sent = c.sent]

Event(op, i, input, rawText) == [op |-> op, call |-> i, input |-> input, rawText |-> rawText]

Init ==
  /\ status = "IDLE"
  /\ error = Null
  /\ report = Null
  /\ audioUrl = Null
  /\ calls = [i \in Submissions |-> NotStarted]
  /\ prevStatus = "IDLE"
  /\ event = Event("init", 0, Null, Null)

\* setStatus(s); prevStatus keeps the value it replaces.
SetStatus(s) ==
  /\ status' = s
  /\ prevStatus' = status

----------------------------------------------------------------------------
(* Handlers of App *)

\* processAudioFile up to its first await: the i-th invocation.
processAudioFile(i, file) ==
  /\ calls[i].pc = "none"
  /\ \A j \in Submissions : j < i => calls[j].pc # "none"
  /\ SetStatus("UPLOADING")
  /\ error' = Null
  /\ audioUrl' = Some(i)
  /\ calls' = [calls EXCEPT ![i] = [NotStarted EXCEPT !.pc = "readFile", !.file = Some(file),
                                                      !.reader = "LOADING"]]
  /\ event' = Event("processAudioFile", i, Some(file), Null)
  /\ UNCHANGED report

\* handleFileChange: returns at once when no file was chosen.
handleFileChange(sel) ==
  IF sel = Null THEN UNCHANGED vars
  ELSE \E i \in Submissions : processAudioFile(i, TheValue(sel))

\* Variant: the continuation after the read without setStatus(TRANSCRIBING).
FileLoaded_SkipTranscribing(i) ==
  /\ calls[i].pc = "readFile"
  /\ calls[i].reader = "LOADING"
  /\ calls' = [calls EXCEPT ![i].pc = "transcribe", ![i].reader = "DONE",
                            ![i].base64Audio = Some(Base64Of(readAsDataURL(TheValue(calls[i].file)))),
                            ![i].sent = Append(calls[i].sent, "transcribe")]
  /\ event' = Event("FileLoaded", i, Null, Null)
  /\ UNCHANGED <<status, prevStatus, error, report, audioUrl>>

\* reader.onload fires: base64Promise resolves, the transcription is dispatched.
FileLoaded(i) ==
  /\ calls[i].pc = "readFile"
  /\ calls[i].reader = "LOADING"
  /\ SetStatus("TRANSCRIBING")
  /\ calls' = [calls EXCEPT ![i].pc = "transcribe", ![i].reader = "DONE",
                            ![i].base64Audio = Some(Base64Of(readAsDataURL(TheValue(calls[i].file)))),
                            ![i].sent = Append(calls[i].sent, "transcribe")]
  /\ event' = Event("FileLoaded", i, Null, Null)
  /\ UNCHANGED <<error, report, audioUrl>>

\* The read fails: the reader has no onerror handler and base64Promise has no
\* reject path, so the invocation stays suspended at its first await.
FileReadError(i) ==
  /\ calls[i].pc = "readFile"
  /\ calls[i].reader = "LOADING"
  /\ calls' = [calls EXCEPT ![i].reader = "ERROR"]
  /\ event' = Event("FileReadError", i, Null, Null)
  /\ UNCHANGED <<status, prevStatus, error, report, audioUrl>>

\* Variant: the catch block also running setAudioUrl(null).
Catch_ClearsAudioUrl(i, err) ==
  /\ error' = Some(ErrorMessage(err))
  /\ SetStatus("ERROR")
  /\ audioUrl' = Null
  /\ calls' = [calls EXCEPT ![i] = Finished(calls[i], "caught")]
  /\ UNCHANGED report

\* Variant: the catch block without setStatus(AppStatus.ERROR).
Catch_NoStatus(i, err) ==
  /\ error' = Some(ErrorMessage(err))
  /\ calls' = [calls EXCEPT ![i] = Finished(calls[i], "caught")]
  /\ UNCHANGED <<status, prevStatus, report, audioUrl>>

\* The catch block of processAudioFile.
Catch(i, err) ==
  /\ error' = Some(ErrorMessage(err))
  /\ SetStatus("ERROR")
  /\ calls' = [calls EXCEPT ![i] = Finished(calls[i], "caught")]
  /\ UNCHANGED <<report, audioUrl>>

\* Variant: an empty transcript thrown as an error (if (!rawText) throw ...).
TranscribeResolved_RejectsEmpty(i, text) ==
  /\ calls[i].pc = "transcribe"
  /\ IF transcribeAudio(text) = ""
     THEN Catch(i, [message |-> "Empty transcript"])
     ELSE /\ SetStatus("REFINING")
          /\ calls' = [calls EXCEPT ![i].pc = "refine", ![i].rawText = Some(transcribeAudio(text)),
                            ![i].sent = Append(calls[i].sent, "structure")]
          /\ UNCHANGED <<error, report, audioUrl>>
  /\ event' = Event("TranscribeResolved", i, text, Null)

\* transcribeAudio resolves: the structuring call is dispatched.
TranscribeResolved(i, text) ==
  /\ calls[i].pc = "transcribe"
  /\ SetStatus("REFINING")
  /\ calls' = [calls EXCEPT ![i].pc = "refine", ![i].rawText = Some(transcribeAudio(text)),
                            ![i].sent = Append(calls[i].sent, "structure")]
  /\ event' = Event("TranscribeResolved", i, text, Null)
  /\ UNCHANGED <<error, report, audioUrl>>

\* Variant: a rejected transcription treated as an empty transcript, the
\* structuring call dispatched all the same.
TranscribeRejected_StillRefines(i, err) ==
  /\ calls[i].pc = "transcribe"
  /\ SetStatus("REFINING")
  /\ calls' = [calls EXCEPT ![i].pc = "refine", ![i].rawText = Some(""),
                            ![i].sent = Append(calls[i].sent, "structure")]
  /\ event' = Event("TranscribeRejected", i, Some(err), Null)
  /\ UNCHANGED <<error, report, audioUrl>>

\* transcribeAudio rejects.
TranscribeRejected(i, err) ==
  /\ calls[i].pc = "transcribe"
  /\ Catch(i, err)
  /\ event' = Event("TranscribeRejected", i, Some(err), Null)

\* refineMedicalReport resolves, with the parsed or the fallback report.
RefineResolved(i, text) ==
  /\ calls[i].pc = "refine"
  /\ report' = Some(refineMedicalReport(text, TheValue(calls[i].rawText)))
  /\ SetStatus("COMPLETED")
  /\ calls' = [calls EXCEPT ![i] = Finished(calls[i], "returned")]
  /\ event' = Event("RefineResolved", i, text, calls[i].rawText)
  /\ UNCHANGED <<error, audioUrl>>

\* generateContent of refineMedicalReport rejects: the await is outside the
\* function's try block, so the rejection reaches processAudioFile's catch.
RefineRejected(i, err) ==
  /\ calls[i].pc = "refine"
  /\ Catch(i, err)
  /\ event' = Event("RefineRejected", i, Some(err), calls[i].rawText)

\* Variants: reset without setAudioUrl(null), or without setReport(null).
ResetState_KeepsAudioUrl(s) == [s EXCEPT !.status = "IDLE", !.report = Null, !.error = Null]
ResetState_KeepsReport(s) == [s EXCEPT !.status = "IDLE", !.audioUrl = Null, !.error = Null]

\* The four setters of reset.
ResetState(s) == [s EXCEPT !.status = "IDLE", !.report = Null, !.audioUrl = Null, !.error = Null]

View == [status |-> status, report |-> report, audioUrl |-> audioUrl, error |-> error]

reset ==
  /\ SetStatus(ResetState(View).status)
  /\ report' = ResetState(View).report
  /\ audioUrl' = ResetState(View).audioUrl
  /\ error' = ResetState(View).error
  /\ event' = Event("reset", 0, Some(status), Null)
  /\ UNCHANGED calls

\* The steps of the invocations in flight.
Pipeline ==
  \E i \in Submissions :
    \/ FileLoaded(i)
    \/ FileReadError(i)
    \/ \E text \in TranscribeTexts : TranscribeResolved(i, text)
    \/ \E err \in Rejections : TranscribeRejected(i, err)
    \/ \E text \in RefineTexts : RefineResolved(i, text)
    \/ \E err \in Rejections : RefineRejected(i, err)

----------------------------------------------------------------------------
(* The application as rendered: the file input exists only while status is *)
(* IDLE, the reset buttons only in the ERROR and COMPLETED views.          *)

\* Variant: the file input rendered in the result views as well.
FileInputRendered_InResultViews == status \in {"IDLE", "COMPLETED", "ERROR"}

\* Variant: the file input rendered in every view.
FileInputRendered_Always == TRUE

FileInputRendered == status = "IDLE"
ResetButtonRendered == status = "ERROR" \/ (status = "COMPLETED" /\ report # Null)

UIFileChange == FileInputRendered /\ \E sel \in FileSelections : handleFileChange(sel)
UIReset == ResetButtonRendered /\ reset

Next == UIFileChange \/ UIReset \/ Pipeline

Spec == Init /\ [][Next]_vars

(* The rendered application when the browser and the gateway do their      *)
(* part: a read that has not failed completes, and a dispatched gateway    *)
(* call settles, resolved or rejected.                                     *)

ReadCompletes == \E i \in Submissions : FileLoaded(i)

TranscribeSettles ==
  \E i \in Submissions :
    \/ \E text \in TranscribeTexts : TranscribeResolved(i, text)
    \/ \E err \in Rejections : TranscribeRejected(i, err)

RefineSettles ==
  \E i \in Submissions :
    \/ \E text \in RefineTexts : RefineResolved(i, text)
    \/ \E err \in Rejections : RefineRejected(i, err)

SpecLive ==
  /\ Init /\ [][Next]_vars
  /\ WF_vars(ReadCompletes) /\ WF_vars(TranscribeSettles) /\ WF_vars(RefineSettles)

(* The state machine on its own: the handlers invoked in any state.        *)

AnyFileChange == \E sel \in FileSelections : handleFileChange(sel)
AnyReset == reset

NextAPI == AnyFileChange \/ AnyReset \/ Pipeline

SpecAPI == Init /\ [][NextAPI]_vars

----------------------------------------------------------------------------
(* Properties *)

InFlight(i) == calls[i].pc \in {"readFile", "transcribe", "refine"}

\* The value of status at each await of processAudioFile and at its return,
\* with the value before it.
StageStatus(pc) ==
  CASE pc = "readFile" -> <<"IDLE", "UPLOADING">>
    [] pc = "transcribe" -> <<"UPLOADING", "TRANSCRIBING">>
    [] pc = "refine" -> <<"TRANSCRIBING", "REFINING">>
    [] pc = "returned" -> <<"REFINING", "COMPLETED">>

\* C1: in the rendered application a submission in which nothing has failed
\* has, at each of its stages in turn (reading, transcribing, refining,
\* returned), status equal to UPLOADING, TRANSCRIBING, REFINING, COMPLETED
\* respectively, each value having replaced the one before it in the order
\* IDLE, UPLOADING, TRANSCRIBING, REFINING, COMPLETED.
C1_StatusSequence ==
  /\ \A i \in Submissions : InFlight(i) => <<prevStatus, status>> = StageStatus(calls[i].pc)
  /\ event.op = "RefineResolved" =>
        /\ calls[event.call].pc = "returned"
        /\ <<prevStatus, status>> = StageStatus("returned")

C1_Witness ==
  /\ event.op = "RefineResolved"
  /\ calls[event.call].pc = "returned"
  /\ prevStatus = "REFINING"
  /\ status = "COMPLETED"

\* C2: when transcribeAudio rejects, the invocation ends in its catch block
\* with status ERROR, and error is the rejection's message if it has a
\* non-empty one and the default text otherwise.
C2_TranscribeRejection ==
  event.op = "TranscribeRejected" =>
    LET err == TheValue(event.input) IN
    /\ calls[event.call].pc = "caught"
    /\ status = "ERROR"
    /\ ("message" \in DOMAIN err /\ err.message # "") => error = Some(err.message)
    /\ ("message" \notin DOMAIN err \/ err.message = "") =>
          error = Some("An error occurred during processing.")

C2_Witness ==
  /\ event.op = "TranscribeRejected"
  /\ "message" \in DOMAIN TheValue(event.input)
  /\ TheValue(event.input).message = ""
  /\ error = Some(DefaultErrorMessage)

\* C3 (as claimed): when the structuring call rejects after a transcript T
\* was obtained, the submission is COMPLETED with the fallback report for T.
C3_RefineRejectionCompletes ==
  event.op = "RefineRejected" =>
    /\ status = "COMPLETED"
    /\ report # Null
    /\ TheValue(report).originalText = TheValue(event.rawText)

\* The source text JSON.parse is given for a response text.
ParsedSource(text) == IF text = Null \/ text = Some(<<>>) THEN <<LBrace, RBrace>> ELSE TheValue(text)

RequiredKeys == {"findings", "diagnosis", "plan"}

\* C4: when the structuring response is not parseable JSON, the submission is
\* COMPLETED with originalText the transcript and findings, diagnosis and
\* plan the three fixed fallback strings.
C4_UnparseableFallback ==
  (event.op = "RefineResolved" /\ ~JSONparse(ParsedSource(event.input)).ok) =>
    /\ status = "COMPLETED"
    /\ report = Some([findings |-> FallbackFindings, diagnosis |-> FallbackDiagnosis,
                      plan |-> FallbackPlan, originalText |-> TheValue(event.rawText)])

C4_Witness ==
  /\ event.op = "RefineResolved"
  /\ event.input = Some(<<Word("Lo"), Word("siento")>>)
  /\ event.rawText = Some("Rinon izquierdo mide 10 centimetros.")
  /\ status = "COMPLETED"
  /\ TheValue(report).findings = FallbackFindings

\* C5 (as claimed): when the structuring response parses but lacks one of
\* findings, diagnosis, plan, the report is the fixed fallback report.
C5_MissingKeysFallback ==
  (/\ event.op = "RefineResolved"
   /\ JSONparse(ParsedSource(event.input)).ok
   /\ \/ JSONparse(ParsedSource(event.input)).value.kind # "object"
      \/ ~(RequiredKeys \subseteq DOMAIN JSONparse(ParsedSource(event.input)).value.members)) =>
    report = Some(FallbackReport(TheValue(event.rawText)))

\* C6 (as claimed): when status is IDLE while a gateway call is pending (reset
\* was invoked during the flight), the settling of that call leaves status
\* IDLE and report and error null.
C6_StaleResultDiscarded ==
  [][\A i \in Submissions :
       (/\ status = "IDLE"
        /\ calls[i].pc \in {"transcribe", "refine"}
        /\ calls'[i].pc # calls[i].pc) =>
          (status' = "IDLE" /\ report' = Null /\ error' = Null)]_vars

\* C7 (as claimed): a failed read of the file moves the submission to ERROR
\* with the default message.
C7_ReadFailureIsError ==
  event.op = "FileReadError" =>
    status = "ERROR" /\ error = Some("An error occurred during processing.")

WellFormedText ==
  <<LBrace>> \o Member("findings", "F") \o <<Comma>> \o Member("diagnosis", "D")
  \o <<Comma>> \o Member("plan", "P") \o <<RBrace>>

WellFormedTextWithExtras ==
  <<LBrace>> \o Member("patientInfo", "N") \o <<Comma>> \o Member("findings", "F")
  \o <<Comma>> \o Member("diagnosis", "D") \o <<Comma>> \o Member("plan", "P")
  \o <<Comma>> \o Member("originalText", "X") \o <<RBrace>>

\* C8: with transcript T and a response that is a JSON object holding
\* findings F, diagnosis D and plan P, the stored report has originalText T,
\* findings F, diagnosis D and plan P.
C8_RoundTrip ==
  (event.op = "RefineResolved" /\ event.input \in {Some(WellFormedText), Some(WellFormedTextWithExtras)}) =>
    /\ status = "COMPLETED"
    /\ report # Null
    /\ TheValue(report).originalText = TheValue(event.rawText)
    /\ TheValue(report).findings = "F"
    /\ TheValue(report).diagnosis = "D"
    /\ TheValue(report).plan = "P"

C8_Witness ==
  /\ event.op = "RefineResolved"
  /\ event.input = Some(WellFormedTextWithExtras)
  /\ TheValue(report).originalText = "Rinon izquierdo mide 10 centimetros."
  /\ TheValue(report).plan = "P"

\* C9: a reset invoked in any state gives status IDLE and report, error and
\* audioUrl null, and a reset that follows a reset changes none of the four.
C9_ResetIdempotent ==
  [][event'.op = "reset" =>
       /\ status' = "IDLE" /\ report' = Null /\ error' = Null /\ audioUrl' = Null
       /\ event.op = "reset" => UNCHANGED <<status, report, error, audioUrl>>]_vars

\* A reset of the state a reset left, after a submission had started.
C9_Witness ==
  /\ event.op = "reset"
  /\ event.input = Some("IDLE")
  /\ calls[1].pc = "refine"
  /\ status = "IDLE" /\ report = Null /\ error = Null /\ audioUrl = Null

\* C10: in the rendered application error is non-null only in ERROR and
\* report is non-null only in COMPLETED.
C10_PayloadMatchesStatus ==
  /\ error # Null => status = "ERROR"
  /\ report # Null => status = "COMPLETED"

\* An ERROR state of a second submission, after a first one had completed.
C10_Witness ==
  /\ status = "ERROR" /\ error # Null /\ report = Null
  /\ calls[1].pc = "returned"
  /\ calls[2].pc = "caught"

\* C11: in the rendered application, where a file can be selected only while
\* status is IDLE, at most one invocation of processAudioFile is in flight,
\* and an invocation starts only when status is IDLE and every earlier one
\* has returned or ended in its catch block.
C11_OneSubmissionInFlight ==
  [][/\ Cardinality({i \in Submissions : InFlight(i)'}) <= 1
     /\ \A i \in Submissions :
          (calls[i].pc = "none" /\ calls'[i].pc # "none") =>
             /\ status = "IDLE"
             /\ \A j \in Submissions \ {i} : calls[j].pc \in {"none", "returned", "caught"}]_vars

\* A second submission in flight after the first has finished and been reset.
C11_Witness ==
  /\ calls[1].pc \in {"returned", "caught"}
  /\ InFlight(2)
  /\ calls[2].pc = "refine"

\* C12: when the transcription yields the empty string (response.text empty
\* or undefined), the step is a success: status goes from TRANSCRIBING to
\* REFINING, the invocation awaits the structuring call with rawText the
\* empty string, and error stays null.
C12_EmptyTranscriptContinues ==
  (event.op = "TranscribeResolved" /\ event.input \in {Null, Some("")}) =>
    /\ prevStatus = "TRANSCRIBING"
    /\ status = "REFINING"
    /\ calls[event.call].pc = "refine"
    /\ calls[event.call].rawText = Some("")
    /\ error = Null

C12_Witness ==
  /\ event.op = "TranscribeResolved"
  /\ event.input = Some("")
  /\ status = "REFINING"
  /\ calls[event.call].rawText = Some("")

ReadFailed == \E i \in Submissions : calls[i].reader = "ERROR"

\* C13: in the rendered application, when reads complete and gateway calls
\* settle, a submission in UPLOADING, TRANSCRIBING or REFINING eventually
\* has status COMPLETED or ERROR, unless the read of its file failed.
C13_SubmissionTerminates ==
  (status \in {"UPLOADING", "TRANSCRIBING", "REFINING"}) ~>
     (status \in {"COMPLETED", "ERROR"} \/ ReadFailed)

\* A submission ended by a rejection of the structuring call.
C13_Witness ==
  /\ event.op = "RefineRejected"
  /\ status = "ERROR"
  /\ ~ReadFailed
  /\ \A i \in Submissions : ~InFlight(i)

\* C14: within one invocation of processAudioFile the gateway calls made
\* are, in this order, at most one transcribe and at most one structure; the
\* transcribe call is made when the read completes, the structure call only
\* in the step in which the transcribe call resolves, and an invocation that
\* has finished (in particular after a rejection) makes no further call.
C14_NoRetryOrderedCalls ==
  [][\A i \in Submissions :
       /\ calls'[i].sent \in {<<>>, <<"transcribe">>, <<"transcribe", "structure">>}
       /\ calls'[i].sent # calls[i].sent =>
            \/ /\ calls[i].pc = "readFile"
               /\ calls'[i].sent = <<"transcribe">>
            \/ /\ calls[i].pc = "transcribe"
               /\ event'.op = "TranscribeResolved" /\ event'.call = i
               /\ calls'[i].sent = <<"transcribe", "structure">>
       /\ (event'.op = "TranscribeRejected" /\ event'.call = i) =>
            calls'[i].pc = "caught" /\ calls'[i].sent = <<"transcribe">>
       /\ calls[i].pc \in {"returned", "caught"} => calls'[i] = calls[i]]_vars

\* An invocation ended by a rejected transcription, with its one call.
C14_Witness ==
  /\ event.op = "TranscribeRejected"
  /\ calls[event.call].pc = "caught"
  /\ calls[event.call].sent = <<"transcribe">>

\* C15: in the rendered application, when status is COMPLETED or ERROR a
\* step either leaves status, report and error as they are or is a reset,
\* which sets status to IDLE.
C15_TerminalStatesStable ==
  [][(status = "COMPLETED" \/ status = "ERROR") =>
       ((status' = status /\ report' = report /\ error' = error)
        \/ (event'.op = "reset" /\ status' = "IDLE"))]_vars

\* A reset that left COMPLETED.
C15_Witness ==
  /\ event.op = "reset"
  /\ event.input = Some("COMPLETED")
  /\ status = "IDLE"

\* C16: in the rendered application audioUrl is non-null in every state where
\* status is not IDLE; it changes only in the step that starts a submission
\* from IDLE, which sets it, and in a reset, which sets it to null; the
\* later steps of the pipeline, the catch block included, leave it alone.
C16_AudioUrlFrame ==
  [][/\ status' # "IDLE" => audioUrl' # Null
     /\ audioUrl' # audioUrl =>
          ((event'.op = "processAudioFile" /\ status = "IDLE" /\ status' = "UPLOADING"
            /\ audioUrl' # Null)
           \/ (event'.op = "reset" /\ audioUrl' = Null))]_vars

\* An ERROR state that still holds the handle of its submission.
C16_Witness ==
  /\ status = "ERROR"
  /\ event.op = "TranscribeRejected"
  /\ audioUrl = Some(event.call)

\* C17 (as claimed): the step that starts a submission, from whatever status,
\* leaves error and report null with status UPLOADING.
C17_StartClearsPrevious ==
  event.op = "processAudioFile" =>
    status = "UPLOADING" /\ error = Null /\ report = Null

\* C18: in the rendered application every COMPLETED state was produced by
\* the resolving of refineMedicalReport, and its report has originalText
\* equal to the transcript of that invocation (its rawText), for every
\* response text.
C18_OriginalTextIsTranscript ==
  status = "COMPLETED" =>
    /\ event.op = "RefineResolved"
    /\ event.rawText \in {Some(transcribeAudio(t)) : t \in TranscribeTexts}
    /\ report # Null
    /\ "originalText" \in DOMAIN TheValue(report)
    /\ TheValue(report).originalText = TheValue(event.rawText)

\* A response carrying its own originalText, after an empty transcript.
C18_Witness ==
  /\ status = "COMPLETED"
  /\ event.input = Some(WellFormedTextWithExtras)
  /\ event.rawText = Some("")
  /\ TheValue(report).originalText = ""

====
